---- MODULE Spec2Model ----
(***************************************************************************)
(* Model of rlife (src/src/main.rs): Conway's Game of Life on a fixed     *)
(* grid.  struct Game owns grid: Vec<Vec<u16>> and alive_cells:           *)
(* Vec<[u16; 2]>; main constructs the game from a seed, renders it and    *)
(* then loops update_state / render.                                       *)
(*                                                                         *)
(* Coordinates are 0-based as in the source: the grid is a function        *)
(* [0..rows-1 -> [0..cols-1 -> {0,1}]], a cell [row, col] is the tuple    *)
(* <<row, col>>.  A Rust panic (a Vec index out of bounds) aborts the     *)
(* process: fallible operators return a record with an ok field, and the  *)
(* program position pc records the abort.  term_size is the <<rows,      *)
(* columns>> pair terminal_size() returned to Game::new.                   *)
(***************************************************************************)
EXTENDS Integers, Sequences, FiniteSets, TLC

VARIABLES term_size, seed, grid, alive_cells, pc, gen, frame, log_remove, log_insert

vars == <<term_size, seed, grid, alive_cells, pc, gen, frame, log_remove, log_insert>>

(* ------------------------------ bounds -------------------------------- *)

\* largest terminal height (rows) and width (columns) explored
MaxRows == 4
MaxCols == 4
\* longest seed list explored by Spec
MaxSeedLen == 3
\* number of update_state calls after which the exploration stops
MaxGen == 3
\* largest terminal height/width explored by SpecPatterns
MaxPatDim == 6

(* ------------------------------ glyphs -------------------------------- *)

\* const ALIVE / const DEAD: the glyph printed for a live and for a dead cell
ALIVE == "█"
DEAD == "░"
NEWLINE == "\n"

(* --------------------------- sequence helpers ------------------------- *)

Range(s) == {s[i] : i \in DOMAIN s}

\* Vec::retain(|arr| *arr != c): keeps, in order, the elements different from c
RECURSIVE retain(_, _)
retain(s, c) ==
    IF s = <<>> THEN <<>>
    ELSE IF Head(s) # c THEN <<Head(s)>> \o retain(Tail(s), c)
    ELSE retain(Tail(s), c)

\* the candidate list left as collected, without the unique() of line 87
unique_missing(s) == s

\* itertools unique(): keeps the first occurrence of each element, in order
RECURSIVE uniqueFrom(_, _)
uniqueFrom(s, acc) ==
    IF s = <<>> THEN acc
    ELSE IF Head(s) \in Range(acc) THEN uniqueFrom(Tail(s), acc)
    ELSE uniqueFrom(Tail(s), Append(acc, Head(s)))

unique(s) == uniqueFrom(s, <<>>)

(* ------------------------------ the grid ------------------------------ *)

\* the grid with width and height exchanged: w rows of h zeros
EmptyGrid_swapped(h, w) == [i \in 0..(w - 1) |-> [j \in 0..(h - 1) |-> 0]]

\* the grid built by Game::new: h rows of w zeros
EmptyGrid(h, w) == [i \in 0..(h - 1) |-> [j \in 0..(w - 1) |-> 0]]

\* Game::grid_size: (grid.len(), grid[0].len())
grid_size(g) == <<Cardinality(DOMAIN g), Cardinality(DOMAIN g[0])>>

\* a Vec index inside its bounds
InGrid(g, row, col) == row \in DOMAIN g /\ col \in DOMAIN g[row]

\* a cell_value that reads a dead cell outside the grid instead of panicking
cell_value_padded(g, row, col) ==
    IF InGrid(g, row, col) THEN [ok |-> TRUE, val |-> g[row][col]]
    ELSE [ok |-> TRUE, val |-> 0]

\* Game::cell_value: the indexing panics outside the grid
cell_value(g, row, col) ==
    IF InGrid(g, row, col) THEN [ok |-> TRUE, val |-> g[row][col]]
    ELSE [ok |-> FALSE, val |-> 0]

\* self.grid[row][col] = v
SetCell(g, row, col, v) == [g EXCEPT ![row][col] = v]

\* populate that skips a cell outside the grid instead of indexing it
RECURSIVE populateFrom_skip(_, _)
populateFrom_skip(g, cells) ==
    IF cells = <<>> THEN [ok |-> TRUE, grid |-> g]
    ELSE IF ~InGrid(g, Head(cells)[1], Head(cells)[2]) THEN populateFrom_skip(g, Tail(cells))
    ELSE populateFrom_skip(SetCell(g, Head(cells)[1], Head(cells)[2], 1), Tail(cells))

\* Game::populate: marks every cell of alive_cells in order, panics at the
\* first one outside the grid (the cells before it are already written)
RECURSIVE populateFrom(_, _)
populateFrom(g, cells) ==
    IF cells = <<>> THEN [ok |-> TRUE, grid |-> g]
    ELSE IF ~InGrid(g, Head(cells)[1], Head(cells)[2]) THEN [ok |-> FALSE, grid |-> g]
    ELSE populateFrom(SetCell(g, Head(cells)[1], Head(cells)[2], 1), Tail(cells))

populate(g, cells) == populateFrom(g, cells)

\* Game::new for a terminal of h rows and w columns
new(s, h, w) ==
    LET p == populate(EmptyGrid(h, w), s)
    IN  [ok |-> p.ok, grid |-> p.grid, alive_cells |-> s]

(* --------------------------- neighbour probes ------------------------- *)

\* The eight neighbour positions in the order the source visits them, each
\* with the condition under which the source calls cell_value on it.
Probes(g, root) ==
    LET rows == grid_size(g)[1]
        cols == grid_size(g)[2]
        row  == root[1]
        col  == root[2]
    IN  << [guard |-> row > 0 /\ col > 0,                 row |-> row - 1, col |-> col - 1],
           [guard |-> row > 0,                            row |-> row - 1, col |-> col],
           [guard |-> row > 0 /\ col + 1 <= cols,         row |-> row - 1, col |-> col + 1],
           [guard |-> col > 0,                            row |-> row,     col |-> col - 1],
           [guard |-> col + 1 <= cols,                    row |-> row,     col |-> col + 1],
           [guard |-> row + 1 <= rows /\ col > 0,         row |-> row + 1, col |-> col - 1],
           [guard |-> row + 1 <= rows,                    row |-> row + 1, col |-> col],
           [guard |-> row + 1 <= rows /\ col + 1 <= cols, row |-> row + 1, col |-> col + 1] >>

\* the positions handed to cell_value, in order, up to and including the
\* first one that panics
RECURSIVE queriedFrom(_, _, _)
queriedFrom(g, probes, acc) ==
    IF probes = <<>> THEN acc
    ELSE LET p == Head(probes)
         IN  IF ~p.guard THEN queriedFrom(g, Tail(probes), acc)
             ELSE IF ~InGrid(g, p.row, p.col) THEN Append(acc, <<p.row, p.col>>)
             ELSE queriedFrom(g, Tail(probes), Append(acc, <<p.row, p.col>>))

Queried(g, root) == queriedFrom(g, Probes(g, root), <<>>)

\* Game::get_living_neighbours_count
RECURSIVE countFrom(_, _, _)
countFrom(g, probes, ret) ==
    IF probes = <<>> THEN [ok |-> TRUE, val |-> ret]
    ELSE LET p == Head(probes)
         IN  IF ~p.guard THEN countFrom(g, Tail(probes), ret)
             ELSE LET v == cell_value(g, p.row, p.col)
                  IN  IF ~v.ok THEN [ok |-> FALSE, val |-> ret]
                      ELSE countFrom(g, Tail(probes), IF v.val = 1 THEN ret + 1 ELSE ret)

get_living_neighbours_count(g, root) == countFrom(g, Probes(g, root), 0)

\* Game::get_dead_neighbours
RECURSIVE deadFrom(_, _, _)
deadFrom(g, probes, ret) ==
    IF probes = <<>> THEN [ok |-> TRUE, val |-> ret]
    ELSE LET p == Head(probes)
         IN  IF ~p.guard THEN deadFrom(g, Tail(probes), ret)
             ELSE LET v == cell_value(g, p.row, p.col)
                  IN  IF ~v.ok THEN [ok |-> FALSE, val |-> ret]
                      ELSE deadFrom(g, Tail(probes),
                                    IF v.val = 0 THEN Append(ret, <<p.row, p.col>>) ELSE ret)

get_dead_neighbours(g, root) == deadFrom(g, Probes(g, root), <<>>)

(* ----------------------------- update_state --------------------------- *)

\* lines 79-85: the dead neighbours of every live cell, concatenated in order
RECURSIVE collectDead(_, _, _)
collectDead(g, cells, acc) ==
    IF cells = <<>> THEN [ok |-> TRUE, val |-> acc]
    ELSE LET d == get_dead_neighbours(g, Head(cells))
         IN  IF ~d.ok THEN [ok |-> FALSE, val |-> acc]
             ELSE collectDead(g, Tail(cells), acc \o d.val)

\* computeInsert that sets a born cell in the grid at once, so the candidates
\* evaluated after it count their neighbours in a partially updated grid
RECURSIVE computeInsert_inplace(_, _, _)
computeInsert_inplace(g, dead_cells, acc) ==
    IF dead_cells = <<>> THEN [ok |-> TRUE, val |-> acc]
    ELSE LET n == get_living_neighbours_count(g, Head(dead_cells))
         IN  IF ~n.ok THEN [ok |-> FALSE, val |-> acc]
             ELSE IF n.val = 3
                  THEN computeInsert_inplace(SetCell(g, Head(dead_cells)[1], Head(dead_cells)[2], 1),
                                             Tail(dead_cells), Append(acc, Head(dead_cells)))
                  ELSE computeInsert_inplace(g, Tail(dead_cells), acc)

\* lines 89-96: the candidates with exactly three live neighbours
RECURSIVE computeInsert(_, _, _)
computeInsert(g, dead_cells, acc) ==
    IF dead_cells = <<>> THEN [ok |-> TRUE, val |-> acc]
    ELSE LET n == get_living_neighbours_count(g, Head(dead_cells))
         IN  IF ~n.ok THEN [ok |-> FALSE, val |-> acc]
             ELSE computeInsert(g, Tail(dead_cells),
                                IF n.val = 3 THEN Append(acc, Head(dead_cells)) ELSE acc)

\* computeRemove that clears a dying cell in the grid at once, so the cells
\* evaluated after it count their neighbours in a partially updated grid
RECURSIVE computeRemove_inplace(_, _, _)
computeRemove_inplace(g, cells, acc) ==
    IF cells = <<>> THEN [ok |-> TRUE, val |-> acc]
    ELSE LET n == get_living_neighbours_count(g, Head(cells))
         IN  IF ~n.ok THEN [ok |-> FALSE, val |-> acc]
             ELSE IF n.val < 2 \/ n.val > 3
                  THEN computeRemove_inplace(SetCell(g, Head(cells)[1], Head(cells)[2], 0),
                                             Tail(cells), Append(acc, Head(cells)))
                  ELSE computeRemove_inplace(g, Tail(cells), acc)

\* lines 98-107: the live cells with fewer than two or more than three live
\* neighbours
RECURSIVE computeRemove(_, _, _)
computeRemove(g, cells, acc) ==
    IF cells = <<>> THEN [ok |-> TRUE, val |-> acc]
    ELSE LET n == get_living_neighbours_count(g, Head(cells))
         IN  IF ~n.ok THEN [ok |-> FALSE, val |-> acc]
             ELSE computeRemove(g, Tail(cells),
                                IF n.val < 2 \/ n.val > 3 THEN Append(acc, Head(cells)) ELSE acc)

\* applyRemove without the grid write of line 112: the dead cell stays set
RECURSIVE applyRemove_keepGrid(_, _, _)
applyRemove_keepGrid(g, alive, to_remove) ==
    IF to_remove = <<>> THEN [ok |-> TRUE, grid |-> g, alive_cells |-> alive]
    ELSE applyRemove_keepGrid(g, retain(alive, Head(to_remove)), Tail(to_remove))

\* lines 110-113: every removed cell leaves alive_cells and is cleared in the grid
RECURSIVE applyRemove(_, _, _)
applyRemove(g, alive, to_remove) ==
    IF to_remove = <<>> THEN [ok |-> TRUE, grid |-> g, alive_cells |-> alive]
    ELSE LET c == Head(to_remove)
         IN  IF ~InGrid(g, c[1], c[2])
             THEN [ok |-> FALSE, grid |-> g, alive_cells |-> retain(alive, c)]
             ELSE applyRemove(SetCell(g, c[1], c[2], 0), retain(alive, c), Tail(to_remove))

\* applyInsert without the push of line 117: the born cell is only set in the grid
RECURSIVE applyInsert_noPush(_, _, _)
applyInsert_noPush(g, alive, to_insert) ==
    IF to_insert = <<>> THEN [ok |-> TRUE, grid |-> g, alive_cells |-> alive]
    ELSE LET c == Head(to_insert)
         IN  IF ~InGrid(g, c[1], c[2])
             THEN [ok |-> FALSE, grid |-> g, alive_cells |-> alive]
             ELSE applyInsert_noPush(SetCell(g, c[1], c[2], 1), alive, Tail(to_insert))

\* lines 116-119: every inserted cell is pushed on alive_cells and set in the grid
RECURSIVE applyInsert(_, _, _)
applyInsert(g, alive, to_insert) ==
    IF to_insert = <<>> THEN [ok |-> TRUE, grid |-> g, alive_cells |-> alive]
    ELSE LET c == Head(to_insert)
         IN  IF ~InGrid(g, c[1], c[2])
             THEN [ok |-> FALSE, grid |-> g, alive_cells |-> Append(alive, c)]
             ELSE applyInsert(SetCell(g, c[1], c[2], 1), Append(alive, c), Tail(to_insert))

\* the record of an update_state call that panicked before line 109: nothing
\* was written and nothing was printed
Panicked(g, alive) ==
    [ok |-> FALSE, grid |-> g, alive_cells |-> alive,
     printed |-> FALSE, to_remove |-> <<>>, to_insert |-> <<>>]

\* Game::update_state
update_state(g, alive) ==
    LET collected == collectDead(g, alive, <<>>)
    IN  IF ~collected.ok THEN Panicked(g, alive)
        ELSE
        LET dead_cells == unique(collected.val)
            ins == computeInsert(g, dead_cells, <<>>)
        IN  IF ~ins.ok THEN Panicked(g, alive)
            ELSE
            LET rem == computeRemove(g, alive, <<>>)
            IN  IF ~rem.ok THEN Panicked(g, alive)
                ELSE
                LET removed  == applyRemove(g, alive, rem.val)
                    inserted == applyInsert(removed.grid, removed.alive_cells, ins.val)
                    final    == populate(inserted.grid, inserted.alive_cells)
                IN  [ok |-> removed.ok /\ inserted.ok /\ final.ok,
                     grid |-> final.grid,
                     alive_cells |-> inserted.alive_cells,
                     printed |-> TRUE,
                     to_remove |-> rem.val,
                     to_insert |-> ins.val]

(* -------------------------------- render ------------------------------ *)

\* one printed row: a glyph per cell
renderRow(g, i) ==
    [k \in 1..grid_size(g)[2] |-> IF g[i][k - 1] = 0 THEN DEAD ELSE ALIVE]

\* Game::render: the rows in order, a line break after every row but the last
RECURSIVE renderFrom(_, _, _)
renderFrom(g, i, acc) ==
    IF i >= grid_size(g)[1] THEN acc
    ELSE renderFrom(g, i + 1,
                    acc \o renderRow(g, i)
                        \o (IF i < grid_size(g)[1] - 1 THEN <<NEWLINE>> ELSE <<>>))

render(g) == renderFrom(g, 0, <<>>)

(* ------------------------- the program: fn main ----------------------- *)

\* the cell with row-major index i of a grid of w columns
CellAt(i, w) == <<i \div w, i % w>>

\* the strictly increasing sequences of n indices among lo..hi
RECURSIVE Increasing(_, _, _)
Increasing(n, lo, hi) ==
    IF n = 0 THEN {<<>>}
    ELSE UNION {{<<i>> \o t : t \in Increasing(n - 1, i + 1, hi)} : i \in lo..hi}

Reverse(s) == [k \in 1..Len(s) |-> s[Len(s) + 1 - k]]

\* the seed files explored for an h x w terminal: up to MaxSeedLen distinct
\* cells of the grid, listed in row-major order or in the reverse order
Seeds(h, w) ==
    LET sorted == {[k \in 1..Len(ix) |-> CellAt(ix[k], w)] :
                       ix \in UNION {Increasing(n, 0, h * w - 1) : n \in 0..MaxSeedLen}}
    IN  sorted \cup {Reverse(s) : s \in sorted}

\* main after Game::new(seed_json.cells): the game is built, or new panicked
Started(s, h, w) ==
    LET g == new(s, h, w)
    IN  /\ term_size = <<h, w>>
        /\ seed = s
        /\ grid = g.grid
        /\ alive_cells = g.alive_cells
        /\ pc = IF g.ok THEN "render" ELSE "abort_new"
        /\ gen = 0
        /\ frame = <<>>
        /\ log_remove = <<>>
        /\ log_insert = <<>>

Init == \E h \in 1..MaxRows, w \in 1..MaxCols : \E s \in Seeds(h, w) : Started(s, h, w)

\* a render that wipes the grid it has drawn
Render_wiping ==
    /\ pc = "render"
    /\ frame' = render(grid)
    /\ grid' = EmptyGrid(grid_size(grid)[1], grid_size(grid)[2])
    /\ pc' = "update_state"
    /\ UNCHANGED <<term_size, seed, alive_cells, gen, log_remove, log_insert>>

\* g.render() followed by the one second sleep
Render ==
    /\ pc = "render"
    /\ frame' = render(grid)
    /\ pc' = "update_state"
    /\ UNCHANGED <<term_size, seed, grid, alive_cells, gen, log_remove, log_insert>>

\* g.update_state() of the loop; a panic ends the process
UpdateState ==
    /\ pc = "update_state"
    /\ gen < MaxGen
    /\ LET u == update_state(grid, alive_cells)
       IN  /\ grid' = u.grid
           /\ alive_cells' = u.alive_cells
           /\ pc' = IF u.ok THEN "render" ELSE "abort_update"
           /\ gen' = IF u.ok THEN gen + 1 ELSE gen
           /\ log_remove' = IF u.printed THEN u.to_remove ELSE log_remove
           /\ log_insert' = IF u.printed THEN u.to_insert ELSE log_insert
    /\ UNCHANGED <<term_size, seed, frame>>

\* the game after n update_state calls of the loop, or as the call that
\* panicked found it
RECURSIVE Run(_, _, _)
Run(g, alive, n) ==
    IF n = 0 THEN [ok |-> TRUE, grid |-> g, alive_cells |-> alive]
    ELSE LET u == update_state(g, alive)
         IN  IF ~u.ok THEN [ok |-> FALSE, grid |-> g, alive_cells |-> alive]
             ELSE Run(u.grid, u.alive_cells, n - 1)

Next == Render \/ UpdateState

Spec == Init /\ [][Next]_vars

(* ------------------------- malformed seed files ----------------------- *)

\* the seed files of Spec in row-major order
SortedSeeds(h, w) ==
    {[k \in 1..Len(ix) |-> CellAt(ix[k], w)] :
         ix \in UNION {Increasing(n, 0, h * w - 1) : n \in 0..MaxSeedLen}}

\* A seed file of Spec as it is (k = 0) or with one more line: its first
\* cell listed again at the end (k = 1), a cell just past the last row at the
\* end (k = 2), a cell just past the last column at the front (k = 3).
SeedFile(s, k, h, w) ==
    CASE k = 0 -> s
      [] k = 1 -> IF s = <<>> THEN s ELSE Append(s, s[1])
      [] k = 2 -> Append(s, <<h, 0>>)
      [] OTHER -> <<<<0, w>>>> \o s

InitSeedFile ==
    \E h \in 1..MaxRows, w \in 1..MaxCols :
        \E s \in SortedSeeds(h, w), k \in 0..3 : Started(SeedFile(s, k, h, w), h, w)

SpecSeedFile == InitSeedFile /\ [][Next]_vars

(* ------------------- seeds of the still life and oscillator ----------- *)

\* the 2x2 block with top-left cell <<r, c>>, the horizontal and the vertical
\* line of three cells through the centre <<r, c>>
Block(r, c) == {<<r, c>>, <<r, c + 1>>, <<r + 1, c>>, <<r + 1, c + 1>>}
HLine(r, c) == {<<r, c - 1>>, <<r, c>>, <<r, c + 1>>}
VLine(r, c) == {<<r - 1, c>>, <<r, c>>, <<r + 1, c>>}

\* no cell of S lies in the first or last row or column of an h x w grid
Interior(S, h, w) == \A p \in S : p[1] >= 1 /\ p[1] <= h - 2 /\ p[2] >= 1 /\ p[2] <= w - 2

PatternSets(h, w) ==
    {S \in {Block(r, c) : r \in 0..(h - 1), c \in 0..(w - 1)}
           \cup {HLine(r, c) : r \in 0..(h - 1), c \in 0..(w - 1)}
           \cup {VLine(r, c) : r \in 0..(h - 1), c \in 0..(w - 1)} : Interior(S, h, w)}

\* every order in which a seed file can list the cells of S
Orderings(S) == {s \in [1..Cardinality(S) -> S] : Range(s) = S}

InitPatterns ==
    \E h \in 3..MaxPatDim, w \in 3..MaxPatDim :
        \E S \in PatternSets(h, w) : \E s \in Orderings(S) : Started(s, h, w)

SpecPatterns == InitPatterns /\ [][Next]_vars

(* --------------------------- notions of the claims -------------------- *)

Cells(g) == (DOMAIN g) \X (DOMAIN g[0])

\* the cells set in the grid, and the cells listed in alive_cells
GridLive(g) == {c \in Cells(g) : g[c[1]][c[2]] = 1}
LiveSet == Range(alive_cells)

\* a game exists and the process is running
Running == pc \in {"render", "update_state"}

Adjacent(c, d) ==
    /\ c # d
    /\ c[1] - d[1] \in {-1, 0, 1}
    /\ c[2] - d[2] \in {-1, 0, 1}

\* the live neighbours of c among the cells of the grid (hard edges)
RefCount(g, c) == Cardinality({d \in Cells(g) : Adjacent(c, d) /\ g[d[1]][d[2]] = 1})

\* the next generation by a plain pass over the whole grid
RefNext(g) ==
    {c \in Cells(g) : \/ g[c[1]][c[2]] = 1 /\ RefCount(g, c) \in {2, 3}
                      \/ g[c[1]][c[2]] = 0 /\ RefCount(g, c) = 3}

Rows == grid_size(grid)[1]
Cols == grid_size(grid)[2]

IsCorner(c) == c[1] \in {0, Rows - 1} /\ c[2] \in {0, Cols - 1}
IsEdge(c) == c[1] \in {0, Rows - 1} \/ c[2] \in {0, Cols - 1}

\* the grid Game::new built from the seed
InitialGrid == new(seed, Rows, Cols).grid

(* -------------------------------- claims ------------------------------ *)

\* C1: right after construction and after every update_state call, a grid
\* cell is 1 if and only if its coordinate is an element of alive_cells.
C1_GridAgreesWithLiveSet ==
    Running => \A c \in Cells(grid) : (grid[c[1]][c[2]] = 1) <=> (c \in LiveSet)

\* an update_state call that gave birth to a cell has returned
C1_Witness == pc = "render" /\ gen >= 1 /\ log_insert # <<>>

\* C2: every update_state call completes and leaves alive_cells and the
\* grid equal to the next generation of a plain full-grid pass.
C2_StepMatchesReference ==
    [][pc = "update_state" =>
          /\ pc' = "render"
          /\ Range(alive_cells') = RefNext(grid)
          /\ GridLive(grid') = RefNext(grid)]_vars

\* C3: for every root inside the grid, every position the neighbour
\* functions hand to cell_value lies inside the grid.
C3_QueriesInsideGrid ==
    Running => \A root \in Cells(grid) :
                  \A q \in Range(Queried(grid, root)) : InGrid(grid, q[1], q[2])

\* C4: once the game is constructed no update_state call faults.
C4_NoFault == pc # "abort_update"

\* C5: get_living_neighbours_count returns, with at most 3 for a corner cell
\* and at most 5 for an edge cell.
C5_BoundaryCount ==
    Running => \A c \in Cells(grid) :
                  LET n == get_living_neighbours_count(grid, c)
                  IN  /\ IsCorner(c) => n.ok /\ n.val <= 3
                      /\ IsEdge(c) => n.ok /\ n.val <= 5

\* C6: a seed that is exactly an interior 2x2 block is left unchanged, grid
\* and live set, by any number of update_state calls.
C6_BlockStable ==
    (\E r \in 0..Rows, c \in 0..Cols :
        Range(seed) = Block(r, c) /\ Interior(Block(r, c), Rows, Cols))
    => /\ Running
       /\ LiveSet = Range(seed)
       /\ grid = InitialGrid

\* C7: a seed that is exactly an interior line of three cells is, after an
\* even number of update_state calls, the seed again and, after an odd
\* number, the line of the other orientation through the same centre.
C7_BlinkerOscillates ==
    \A r \in 0..Rows, c \in 0..Cols :
        /\ (Range(seed) = HLine(r, c) /\ Interior(HLine(r, c), Rows, Cols))
           => /\ Running
              /\ LiveSet = (IF gen % 2 = 0 THEN HLine(r, c) ELSE VLine(r, c))
              /\ GridLive(grid) = LiveSet
        /\ (Range(seed) = VLine(r, c) /\ Interior(VLine(r, c), Rows, Cols))
           => /\ Running
              /\ LiveSet = (IF gen % 2 = 0 THEN VLine(r, c) ELSE HLine(r, c))
              /\ GridLive(grid) = LiveSet

\* C8: when the live set is a single cell, wherever it is in the grid, one
\* update_state call leaves alive_cells empty and every grid cell dead.
C8_IsolatedCellDies ==
    [][(pc = "update_state" /\ Cardinality(LiveSet) = 1) =>
          /\ alive_cells' = <<>>
          /\ GridLive(grid') = {}]_vars

\* C9: once alive_cells is empty, every later step leaves alive_cells empty
\* and every grid cell dead, and the game keeps running.
C9_EmptyIsAbsorbing ==
    [][(Running /\ alive_cells = <<>>) =>
          /\ alive_cells' = <<>>
          /\ GridLive(grid') = {}
          /\ pc' # "abort_update"]_vars

\* the population died out and update_state was called again on the empty game
C9_Witness ==
    /\ seed # <<>>
    /\ alive_cells = <<>>
    /\ gen >= 2
    /\ log_remove = <<>>
    /\ log_insert = <<>>

\* C10: a dead cell of the grid is alive after one update_state call if it has
\* exactly three live neighbours, and is still dead otherwise.
C10_BirthRule ==
    [][pc = "update_state" =>
          \A c \in Cells(grid) :
              grid[c[1]][c[2]] = 0 =>
                  IF RefCount(grid, c) = 3
                  THEN grid'[c[1]][c[2]] = 1 /\ c \in Range(alive_cells')
                  ELSE grid'[c[1]][c[2]] = 0 /\ c \notin Range(alive_cells')]_vars

\* the number of times c is listed in the sequence s
Occurrences(s, c) == Cardinality({i \in DOMAIN s : s[i] = c})

\* C11: a live cell is dead after one update_state call (off alive_cells, its
\* grid cell 0) if it has fewer than two or more than three live neighbours,
\* and is still alive, listed in alive_cells as before, if it has two or three.
C11_SurvivalRule ==
    [][pc = "update_state" =>
          \A c \in LiveSet :
              IF RefCount(grid, c) \in {2, 3}
              THEN /\ grid'[c[1]][c[2]] = 1
                   /\ Occurrences(alive_cells', c) = Occurrences(alive_cells, c)
              ELSE /\ grid'[c[1]][c[2]] = 0
                   /\ c \notin Range(alive_cells')]_vars

\* every coordinate of the seed names a cell of the terminal-sized grid
SeedInRange == \A i \in DOMAIN seed : seed[i][1] < term_size[1] /\ seed[i][2] < term_size[2]

\* C13: a seed with a coordinate of row >= R or column >= C makes Game::new
\* panic: no game is returned, nothing is rendered or stepped, and the seed
\* is neither clamped nor shortened.
C13_OutOfRangeSeedIsFatal ==
    ~SeedInRange => /\ pc = "abort_new"
                    /\ gen = 0
                    /\ frame = <<>>
                    /\ alive_cells = seed

\* Game::new panicked on a seed with a coordinate outside the grid
C13_Witness == pc = "abort_new" /\ ~SeedInRange

\* C14: for a seed with every coordinate inside the R x C grid, Game::new
\* returns a game whose grid has exactly R rows of C cells, a cell being alive
\* if and only if its coordinate occurs in the seed, and whose alive_cells is
\* the seed.
C14_ConstructionEffect ==
    SeedInRange =>
        /\ pc # "abort_new"
        /\ gen = 0 =>
              /\ alive_cells = seed
              /\ DOMAIN grid = 0..(term_size[1] - 1)
              /\ \A r \in DOMAIN grid :
                    /\ DOMAIN grid[r] = 0..(term_size[2] - 1)
                    /\ \A c \in DOMAIN grid[r] :
                          (grid[r][c] = 1) <=> (<<r, c>> \in Range(seed))

\* Game::new returned a game for a seed that lists cells of the grid
C14_Witness ==
    /\ SeedInRange
    /\ seed # <<>>
    /\ pc = "render"
    /\ gen = 0
    /\ term_size[1] # term_size[2]

\* C15: update_state writes nothing before to_remove and to_insert are both
\* computed; to_remove is the set of live cells of the generation-N grid with
\* other than two or three live neighbours, to_insert the set of its dead
\* cells with exactly three, so the first is a subset of the live cells and
\* the second disjoint from them, and applying the births before the deaths
\* gives the same grid and the same live set as the deaths before the births.
C15_SnapshotAndCommitOrder ==
    [][pc = "update_state" =>
          IF pc' = "abort_update"
          THEN grid' = grid /\ alive_cells' = alive_cells
          ELSE LET born == applyInsert(grid, alive_cells, log_insert')
                   swapped == applyRemove(born.grid, born.alive_cells, log_remove')
               IN  /\ Range(log_remove') =
                          {c \in LiveSet : RefCount(grid, c) \notin {2, 3}}
                   /\ Range(log_insert') =
                          {c \in Cells(grid) \ LiveSet : RefCount(grid, c) = 3}
                   /\ Range(log_remove') \subseteq LiveSet
                   /\ Range(log_insert') \cap LiveSet = {}
                   /\ swapped.grid = grid'
                   /\ Range(swapped.alive_cells) = Range(alive_cells')]_vars

\* an update_state call that applied both deaths and births has returned
C15_Witness == pc = "render" /\ gen >= 1 /\ log_remove # <<>> /\ log_insert # <<>>

\* no element is listed twice in the sequence s
NoDuplicates(s) == \A i, j \in DOMAIN s : s[i] = s[j] => i = j

\* C16: in every update_state call the candidate list (the collected dead
\* neighbours after unique()) is built and lists each dead cell of the grid
\* adjacent to a live cell exactly once, and nothing else.
C16_CandidatesDeduplicated ==
    pc = "update_state" =>
        LET collected == collectDead(grid, alive_cells, <<>>)
            dead_cells == unique(collected.val)
        IN  /\ collected.ok
            /\ NoDuplicates(dead_cells)
            /\ Range(dead_cells) =
                   {d \in Cells(grid) \ LiveSet : \E a \in LiveSet : Adjacent(a, d)}

\* C17 as stated: for every seed with all coordinates inside the grid,
\* alive_cells lists no coordinate twice, right after construction and after
\* every update_state call.
C17_LiveSetDuplicateFree ==
    (SeedInRange /\ pc # "abort_new") => NoDuplicates(alive_cells)

\* C17 amended: for every seed with all coordinates inside the grid that lists
\* no coordinate twice, alive_cells lists no coordinate twice, right after
\* construction and after every update_state call.
C17_DuplicateFreeSeedStaysDuplicateFree ==
    (SeedInRange /\ NoDuplicates(seed) /\ pc # "abort_new") => NoDuplicates(alive_cells)

\* a game built from a duplicate-free seed gave birth to a cell, which has
\* three live neighbours and so was collected three times as a candidate
C17_Witness ==
    /\ seed # <<>>
    /\ NoDuplicates(seed)
    /\ pc = "render"
    /\ gen >= 1
    /\ log_insert # <<>>
    /\ NoDuplicates(alive_cells)

\* one fixed order of the cells of S, the same for every seed listing S
Reference(S) == CHOOSE s \in Orderings(S) : TRUE

\* C18: games on the same terminal whose seeds are permutations of each other
\* have, after the same number of update_state calls, the same grid and the
\* same set of cells in alive_cells, and a call panics in all of them or in
\* none.  Every game is compared with the game seeded with the same cells in
\* the reference order, so any two of them agree.  (Compared whenever a call
\* has returned or panicked; render changes neither game.)
C18_SeedOrderIrrelevant ==
    pc # "update_state" =>
        LET other == new(Reference(Range(seed)), term_size[1], term_size[2])
            after == Run(other.grid, other.alive_cells, gen)
        IN  /\ other.ok <=> pc # "abort_new"
            /\ after.ok
            /\ after.grid = grid
            /\ Range(after.alive_cells) = LiveSet
            /\ pc = "abort_update" => ~update_state(after.grid, after.alive_cells).ok

\* a game seeded with three cells, not in the reference order, has returned
\* from two update_state calls
C18_Witness ==
    /\ pc = "render"
    /\ gen >= 2
    /\ Cardinality(Range(seed)) = 3
    /\ seed # Reference(Range(seed))
    /\ LiveSet # {}

\* the grid has h rows of w cells each
HasShape(g, h, w) ==
    /\ DOMAIN g = 0..(h - 1)
    /\ \A i \in DOMAIN g : DOMAIN g[i] = 0..(w - 1)

\* C19: render changes neither the grid nor alive_cells, and in every
\* reachable state the grid has the number of rows and the row length it was
\* constructed with (the terminal's height and width): no update_state call
\* adds, removes or resizes a row.
C19_RenderFrameAndGridShape ==
    /\ [](HasShape(grid, term_size[1], term_size[2]))
    /\ [][/\ pc = "render" => grid' = grid /\ alive_cells' = alive_cells
          /\ HasShape(grid', grid_size(grid)[1], grid_size(grid)[2])]_vars

\* render has drawn a grid with live cells that update_state had changed
C19_Witness ==
    /\ pc = "update_state"
    /\ gen >= 1
    /\ frame = render(grid)
    /\ GridLive(grid) # {}
    /\ log_insert # <<>>

\* C20: in every state reached from an in-range seed by construction and
\* update_state calls, every coordinate of alive_cells has 0 <= row < R and
\* 0 <= col < C, and so has every coordinate update_state appended.
C20_LiveSetInsideGrid ==
    /\ \A i \in 1..Len(alive_cells) :
           /\ alive_cells[i][1] >= 0 /\ alive_cells[i][1] < Rows
           /\ alive_cells[i][2] >= 0 /\ alive_cells[i][2] < Cols
    /\ \A i \in 1..Len(log_insert) :
           log_insert[i][1] < Rows /\ log_insert[i][2] < Cols

\* an update_state call has returned after appending a cell to alive_cells
C20_Witness ==
    /\ pc = "render"
    /\ gen >= 1
    /\ log_insert # <<>>
    /\ Len(alive_cells) > Len(seed)

====
